---- MODULE Spec2Model ----
(***************************************************************************)
(* HalfAForm-serv: the authorization and structural-consistency engine.    *)
(*                                                                         *)
(* The state is the persistent store (users, templates, forms), the set of *)
(* session tokens issued so far, and the HTTP requests in flight.  Every   *)
(* handler is split at its storage round trips: the auth middleware's read *)
(* of the user, the handler's read of its resources, and the handler's     *)
(* write.  Steps of different requests interleave freely.                  *)
(*                                                                         *)
(* The storage client is an external collaborator (create / read / update  *)
(* / delete of an entity by id): a read returns the stored entity, an      *)
(* update writes the fields of the data object it is handed, a write to a  *)
(* missing id or against a foreign key of schema.prisma raises an error.   *)
(* Timestamps and password hashes carry no decision and are left out.      *)
(***************************************************************************)
EXTENDS Integers, Sequences, FiniteSets, TLC

VARIABLES users, tokens, templates, forms, reqs, nextUser, nextTemplate, nextForm

vars == <<users, tokens, templates, forms, reqs, nextUser, nextTemplate, nextForm>>

store == <<users, templates, forms>>

(***************************************************************************)
(* Bounds of the model.                                                    *)
(***************************************************************************)
MaxInFlight == 2

MaxUsers == 2

MaxTemplates == 1

MaxForms == 1

MaxVersion == 3

Slots == 1..MaxInFlight

(***************************************************************************)
(* Generic helpers.                                                        *)
(***************************************************************************)
\* JavaScript object spread { ...a, ...b }
Spread(a, b) ==
  [f \in (DOMAIN a) \cup (DOMAIN b) |-> IF f \in DOMAIN b THEN b[f] ELSE a[f]]

\* a[f], or undefined (modelled by d) when the key is absent
Field(a, f, d) == IF f \in DOMAIN a THEN a[f] ELSE d

EmptyTable == [k \in {} |-> [id |-> 0]]

Idle == [pc |-> "idle"]

\* an arriving request takes the first free connection
Free(s) == reqs[s] = Idle /\ \A t \in Slots : t < s => reqs[t] # Idle

\* a response that has been sent, res.status(code).json(...), kept with the
\* route and the credential of the request it answers
Done(r, code, msg) ==
  IF "email" \in DOMAIN r
    THEN [pc |-> "done", op |-> r.op, cred |-> r.cred, email |-> r.email,
          code |-> code, msg |-> msg]
    ELSE [pc |-> "done", op |-> r.op, cred |-> r.cred, code |-> code, msg |-> msg]

(***************************************************************************)
(* Identity and session.                                                   *)
(***************************************************************************)
\* the e-mail addresses of the clients; address i is the one user i registers
Emails == 1..MaxUsers

\* role values a registration body can carry (absent = "regular")
RegRoles == {"regular", "admin", "guest"}

NoToken == [kind |-> "none", userId |-> 0, userRole |-> "", userStatus |-> ""]

\* a token whose signature does not verify, or that is past its expiry
BadToken == [kind |-> "bad", userId |-> 0, userRole |-> "", userStatus |-> ""]

generateToken(userId, userRole, userStatus) ==
  [kind |-> "jwt", userId |-> userId, userRole |-> userRole, userStatus |-> userStatus]

\* verifyToken without the cross-check of the stored status
verifyTokenNoStatus(token) ==
  IF token.kind # "jwt"
    THEN [ok |-> FALSE, code |-> 403, msg |-> "invalid token"]
  ELSE IF token.userId \notin DOMAIN users
    THEN [ok |-> FALSE, code |-> 403, msg |-> "User not found"]
  ELSE IF users[token.userId].role # token.userRole
    THEN [ok |-> FALSE, code |-> 403, msg |-> "Token information mismatch"]
  ELSE [ok |-> TRUE,
        userId |-> token.userId,
        userRole |-> users[token.userId].role,
        userStatus |-> users[token.userId].status]

\* verifyToken without the cross-check of the stored role
verifyTokenNoRole(token) ==
  IF token.kind # "jwt"
    THEN [ok |-> FALSE, code |-> 403, msg |-> "invalid token"]
  ELSE IF token.userId \notin DOMAIN users
    THEN [ok |-> FALSE, code |-> 403, msg |-> "User not found"]
  ELSE IF users[token.userId].status # token.userStatus
    THEN [ok |-> FALSE, code |-> 403, msg |-> "Token information mismatch"]
  ELSE [ok |-> TRUE,
        userId |-> token.userId,
        userRole |-> users[token.userId].role,
        userStatus |-> users[token.userId].status]

verifyToken(token) ==
  IF token.kind # "jwt"
    THEN [ok |-> FALSE, code |-> 403, msg |-> "invalid token"]
  ELSE IF token.userId \notin DOMAIN users
    THEN [ok |-> FALSE, code |-> 403, msg |-> "User not found"]
  ELSE IF users[token.userId].role # token.userRole
          \/ users[token.userId].status # token.userStatus
    THEN [ok |-> FALSE, code |-> 403, msg |-> "Token information mismatch"]
  ELSE [ok |-> TRUE,
        userId |-> token.userId,
        userRole |-> users[token.userId].role,
        userStatus |-> users[token.userId].status]

\* POST /register
Register(s, email, role) ==
  /\ Free(s)
  /\ LET r == [op |-> "register", cred |-> NoToken] IN
     IF \E u \in DOMAIN users : users[u].email = email
       THEN /\ reqs' = [reqs EXCEPT ![s] = Done(r, 400, "User already exists")]
            /\ UNCHANGED <<users, tokens, nextUser>>
       ELSE /\ nextUser <= MaxUsers
            /\ email = nextUser
            /\ users' = users @@ (nextUser :>
                 [id |-> nextUser, email |-> email, role |-> role, status |-> "active"])
            /\ tokens' = tokens \cup {generateToken(nextUser, role, "active")}
            /\ nextUser' = nextUser + 1
            /\ reqs' = [reqs EXCEPT ![s] =
                 Spread(Done(r, 201, "registered"),
                        [token |-> generateToken(nextUser, role, "active")])]
  /\ UNCHANGED <<templates, forms, nextTemplate, nextForm>>

\* POST /login; passwordValid is the outcome of bcrypt.compare
Login(s, email, passwordValid) ==
  /\ Free(s)
  /\ LET r == [op |-> "login", cred |-> NoToken, email |-> email]
         found == {u \in DOMAIN users : users[u].email = email} IN
     IF found = {}
       THEN /\ reqs' = [reqs EXCEPT ![s] = Done(r, 401, "Invalid credentials")]
            /\ UNCHANGED tokens
     ELSE LET user == users[CHOOSE u \in found : TRUE] IN
       IF user.status # "active"
         THEN /\ reqs' = [reqs EXCEPT ![s] = Done(r, 401, "User is not active")]
              /\ UNCHANGED tokens
       ELSE IF ~passwordValid
         THEN /\ reqs' = [reqs EXCEPT ![s] = Done(r, 401, "Invalid credentials")]
              /\ UNCHANGED tokens
       ELSE /\ tokens' = tokens \cup {generateToken(user.id, user.role, user.status)}
            /\ reqs' = [reqs EXCEPT ![s] =
                 Spread(Done(r, 200, "logged in"),
                        [token |-> generateToken(user.id, user.role, user.status)])]
  /\ UNCHANGED <<users, templates, forms, nextUser, nextTemplate, nextForm>>

\* A request r = [op, id, body] arrives at a protected route with the
\* credential cred; the middleware verifies it against the stored user and
\* either answers or hands the request to the route's handler.
authMiddleware(s, cred, r) ==
  /\ Free(s)
  /\ LET q == Spread(r, [cred |-> cred]) IN
     IF cred.kind = "none"
       \* Error("No token provided") has no statusCode: res.status(undefined)
       THEN reqs' = [reqs EXCEPT ![s] = Done(q, 0, "No token provided")]
     ELSE LET userData == verifyToken(cred) IN
       IF ~userData.ok
         THEN reqs' = [reqs EXCEPT ![s] = Done(q, userData.code, userData.msg)]
         ELSE reqs' = [reqs EXCEPT ![s] =
                Spread(q, [pc |-> "handler",
                           user |-> [id |-> userData.userId,
                                     role |-> userData.userRole,
                                     status |-> userData.userStatus]])]
  /\ UNCHANGED <<users, tokens, templates, forms, nextUser, nextTemplate, nextForm>>

\* the client receives the response
Reply(s) ==
  /\ reqs[s].pc = "done"
  /\ reqs' = [reqs EXCEPT ![s] = Idle]
  /\ UNCHANGED <<users, tokens, templates, forms, nextUser, nextTemplate, nextForm>>

(***************************************************************************)
(* User management (admin only).                                           *)
(***************************************************************************)
\* fields an update body can carry
UserUpdates ==
  {[role |-> "admin"], [role |-> "regular"],
   [status |-> "suspended"], [status |-> "active"]}

\* GET /users
getAllUsers(s) ==
  /\ reqs[s].pc = "handler"
  /\ reqs[s].op = "getAllUsers"
  /\ IF reqs[s].user.role # "admin"
       THEN reqs' = [reqs EXCEPT ![s] = Done(@, 403, "Only admins can access this resource")]
       ELSE reqs' = [reqs EXCEPT ![s] = Done(@, 200, "users")]
  /\ UNCHANGED <<users, tokens, templates, forms, nextUser, nextTemplate, nextForm>>

\* updateUser without the test of the caller's role
updateUserAnyRole(s) ==
  /\ reqs[s].pc = "handler"
  /\ reqs[s].op = "updateUser"
  /\ IF reqs[s].id \notin DOMAIN users
       THEN /\ reqs' = [reqs EXCEPT ![s] = Done(@, 500, "Record to update not found")]
            /\ UNCHANGED users
     ELSE /\ users' = [users EXCEPT ![reqs[s].id] = Spread(@, reqs[s].body)]
          /\ reqs' = [reqs EXCEPT ![s] = Done(@, 200, "updated")]
  /\ UNCHANGED <<tokens, templates, forms, nextUser, nextTemplate, nextForm>>

\* PUT /users/:id
updateUser(s) ==
  /\ reqs[s].pc = "handler"
  /\ reqs[s].op = "updateUser"
  /\ IF reqs[s].user.role # "admin"
       THEN /\ reqs' = [reqs EXCEPT ![s] = Done(@, 403, "Only admins can update users")]
            /\ UNCHANGED users
     ELSE IF reqs[s].id \notin DOMAIN users
       THEN /\ reqs' = [reqs EXCEPT ![s] = Done(@, 500, "Record to update not found")]
            /\ UNCHANGED users
     ELSE /\ users' = [users EXCEPT ![reqs[s].id] = Spread(@, reqs[s].body)]
          /\ reqs' = [reqs EXCEPT ![s] = Done(@, 200, "updated")]
  /\ UNCHANGED <<tokens, templates, forms, nextUser, nextTemplate, nextForm>>

\* DELETE /users/:id; Template.author and Form.user are required relations
\* (delete restricted), the TemplateAdmins join rows cascade
deleteUser(s) ==
  /\ reqs[s].pc = "handler"
  /\ reqs[s].op = "deleteUser"
  /\ IF reqs[s].user.role # "admin"
       THEN /\ reqs' = [reqs EXCEPT ![s] = Done(@, 403, "Only admins can delete users")]
            /\ UNCHANGED <<users, templates>>
     ELSE IF reqs[s].id \notin DOMAIN users
       THEN /\ reqs' = [reqs EXCEPT ![s] = Done(@, 500, "Record to delete does not exist")]
            /\ UNCHANGED <<users, templates>>
     ELSE IF \/ \E t \in DOMAIN templates : templates[t].authorId = reqs[s].id
             \/ \E f \in DOMAIN forms : forms[f].userId = reqs[s].id
       THEN /\ reqs' = [reqs EXCEPT ![s] = Done(@, 500, "Foreign key constraint failed")]
            /\ UNCHANGED <<users, templates>>
     ELSE /\ users' = [u \in DOMAIN users \ {reqs[s].id} |-> users[u]]
          /\ templates' = [t \in DOMAIN templates |->
                             [templates[t] EXCEPT !.admins = @ \ {reqs[s].id}]]
          /\ reqs' = [reqs EXCEPT ![s] = Done(@, 200, "deleted")]
  /\ UNCHANGED <<tokens, forms, nextUser, nextTemplate, nextForm>>

(***************************************************************************)
(* Templates.                                                              *)
(***************************************************************************)
\* JSON.stringify: the value as a JSON string
JSONstringify(v) == [enc |-> "string", val |-> v]

\* JSON.parse of a stored Json column: only a string parses back to its value
JSONparse(j) == IF j.enc = "string" THEN [ok |-> TRUE, val |-> j.val] ELSE [ok |-> FALSE]

BlockTypes == {"short", "paragraph", "multipleChoice"}

\* TemplateBlockSchema.safeParse(b).success
TemplateBlockSchema(b) ==
  /\ {"id", "type", "question", "required"} \subseteq DOMAIN b
  /\ b.type \in BlockTypes
  /\ b.required \in BOOLEAN
  /\ "optionsType" \in DOMAIN b => b.optionsType \in {"checkbox", "radio", "dropdown"}

\* TemplateUpdateSchema.safeParse(t).success: every field is optional, a field
\* that is present must have its type (unknown keys such as status pass)
TemplateUpdateSchema(t) ==
  /\ "blocks" \in DOMAIN t => \A i \in 1..Len(t.blocks) : TemplateBlockSchema(t.blocks[i])
  /\ "version" \in DOMAIN t => t.version \in Int
  /\ "authorId" \in DOMAIN t => t.authorId \in Int

Q1 == [id |-> "q1", type |-> "short", question |-> "Q1", required |-> TRUE]

Q2 == [id |-> "q2", type |-> "multipleChoice", question |-> "Q2", required |-> FALSE,
       optionsType |-> "checkbox", options |-> <<"a", "b">>]

Q3 == [id |-> "q3", type |-> "paragraph", question |-> "Q3", required |-> TRUE]

QBad == [id |-> "q1", type |-> "bogus", question |-> "Q1", required |-> TRUE]

\* a second block that carries the id of Q1
Q1Dup == [id |-> "q1", type |-> "paragraph", question |-> "Q1 again", required |-> FALSE]

\* validateUser of the form and template controllers on req.user
validateUser(user) ==
  /\ user.id # 0
  /\ user.role \in {"admin", "regular"}
  /\ user.status = "active"

\* TemplateHandler.getTemplate: the stored template, or 404
getTemplate(id) ==
  IF id \in DOMAIN templates
    THEN [ok |-> TRUE, template |-> templates[id]]
    ELSE [ok |-> FALSE, code |-> 404, msg |-> "Template not found"]

\* validatePermissions without the collaborator set
validatePermissionsAuthorOnly(existingTemplate, userId, role) ==
  ~ (/\ existingTemplate.authorId # userId
     /\ role # "admin")

\* validatePermissions without the exemption of the admin role
validatePermissionsNoAdmin(existingTemplate, userId, role) ==
  ~ (/\ existingTemplate.authorId # userId
     /\ userId \notin existingTemplate.admins)

\* TemplateController.validatePermissions: TRUE when it does not throw
validatePermissions(existingTemplate, userId, role) ==
  ~ (/\ existingTemplate.authorId # userId
     /\ userId \notin existingTemplate.admins
     /\ role # "admin")

\* POST /templates/new
createTemplate(s) ==
  /\ reqs[s].pc = "handler"
  /\ reqs[s].op = "createTemplate"
  /\ LET body == reqs[s].body
         user == reqs[s].user IN
     IF ~ {"name", "description", "blocks"} \subseteq DOMAIN body
       THEN /\ reqs' = [reqs EXCEPT ![s] = Done(@, 400, "Missing required fields")]
            /\ UNCHANGED <<templates, nextTemplate>>
     ELSE IF \E i \in 1..Len(body.blocks) : ~TemplateBlockSchema(body.blocks[i])
       THEN /\ reqs' = [reqs EXCEPT ![s] = Done(@, 400, "Validation error")]
            /\ UNCHANGED <<templates, nextTemplate>>
     ELSE IF user.id = 0
       THEN /\ reqs' = [reqs EXCEPT ![s] = Done(@, 401, "User is not authenticated")]
            /\ UNCHANGED <<templates, nextTemplate>>
     ELSE IF user.role # "admin" /\ user.role # "regular"
       THEN /\ reqs' = [reqs EXCEPT ![s] = Done(@, 401, "User is not authorized")]
            /\ UNCHANGED <<templates, nextTemplate>>
     ELSE IF user.status # "active"
       THEN /\ reqs' = [reqs EXCEPT ![s] = Done(@, 401, "User is not active")]
            /\ UNCHANGED <<templates, nextTemplate>>
     ELSE /\ nextTemplate <= MaxTemplates
          /\ templates' = templates @@ (nextTemplate :>
               [id |-> nextTemplate,
                name |-> body.name,
                description |-> body.description,
                status |-> Field(body, "status", "draft"),
                blocks |-> JSONstringify(body.blocks),
                authorId |-> user.id,
                version |-> 1,
                admins |-> {user.id}])
          /\ nextTemplate' = nextTemplate + 1
          /\ reqs' = [reqs EXCEPT ![s] = Spread(Done(@, 201, "created"), [id |-> nextTemplate])]
  /\ UNCHANGED <<users, tokens, forms, nextUser, nextForm>>

\* the merge of TemplateController.updateTemplate
MergeTemplate(existingTemplate, partialTemplate) ==
  Spread(Spread(existingTemplate, partialTemplate),
         [blocks |-> IF "blocks" \in DOMAIN partialTemplate
                       THEN partialTemplate.blocks
                       ELSE JSONparse(existingTemplate.blocks).val,
          admins |-> existingTemplate.admins])

\* POST /templates/update/:id, up to the call of the handler: load, authorize,
\* merge, validate
updateTemplate(s) ==
  /\ reqs[s].pc = "handler"
  /\ reqs[s].op = "updateTemplate"
  /\ LET user == reqs[s].user
         got == getTemplate(reqs[s].id) IN
     IF ~validateUser(user)
       THEN reqs' = [reqs EXCEPT ![s] =
              Done(@, 401, "The user is not authorized to create a form")]
     ELSE IF ~got.ok
       THEN reqs' = [reqs EXCEPT ![s] = Done(@, got.code, got.msg)]
     ELSE IF ~validatePermissions(got.template, user.id, user.role)
       THEN reqs' = [reqs EXCEPT ![s] = Done(@, 401, "User is not authorized for this action")]
     ELSE IF ~TemplateUpdateSchema(MergeTemplate(got.template, reqs[s].body))
       THEN reqs' = [reqs EXCEPT ![s] = Done(@, 400, "Validation error")]
     ELSE /\ got.template.version < MaxVersion
          /\ reqs' = [reqs EXCEPT ![s] =
               Spread(@, [pc |-> "write",
                          existingTemplate |-> got.template,
                          data |-> MergeTemplate(got.template, reqs[s].body)])]
  /\ UNCHANGED <<users, tokens, templates, forms, nextUser, nextTemplate, nextForm>>

\* the data object TemplateHandler.updateTemplate hands to the store
UpdateData(templateData) ==
  Spread(templateData, [blocks |-> JSONstringify(templateData.blocks),
                        version |-> templateData.version + 1])

\* TemplateHandler.updateTemplate storing the blocks as they are, without
\* JSON.stringify: the record is written, then JSON.parse(data.blocks) in the
\* controller throws and the catch block answers 500
TemplateHandler_updateTemplateUnparsed(s) ==
  /\ reqs[s].pc = "write"
  /\ reqs[s].op = "updateTemplate"
  /\ IF reqs[s].id \notin DOMAIN templates
       THEN /\ reqs' = [reqs EXCEPT ![s] = Done(@, 500, "Record to update not found")]
            /\ UNCHANGED templates
       ELSE /\ templates' = [templates EXCEPT ![reqs[s].id] =
                 Spread(UpdateData(reqs[s].data),
                        [blocks |-> [enc |-> "array", val |-> reqs[s].data.blocks]])]
            /\ reqs' = [reqs EXCEPT ![s] = Done(@, 500, "Unexpected token")]
  /\ UNCHANGED <<users, tokens, forms, nextUser, nextTemplate, nextForm>>

\* TemplateHandler.updateTemplate and the response
TemplateHandler_updateTemplate(s) ==
  /\ reqs[s].pc = "write"
  /\ reqs[s].op = "updateTemplate"
  /\ IF reqs[s].id \notin DOMAIN templates
       THEN /\ reqs' = [reqs EXCEPT ![s] = Done(@, 500, "Record to update not found")]
            /\ UNCHANGED templates
       ELSE /\ templates' = [templates EXCEPT ![reqs[s].id] = UpdateData(reqs[s].data)]
            /\ reqs' = [reqs EXCEPT ![s] = Spread(Done(@, 200, "updated"), [id |-> reqs[s].id])]
  /\ UNCHANGED <<users, tokens, forms, nextUser, nextTemplate, nextForm>>

\* DELETE /templates/:id, up to the call of the handler; every failure is
\* answered 500 by this route's catch block
deleteTemplate(s) ==
  /\ reqs[s].pc = "handler"
  /\ reqs[s].op = "deleteTemplate"
  /\ LET user == reqs[s].user
         got == getTemplate(reqs[s].id) IN
     IF ~got.ok
       THEN reqs' = [reqs EXCEPT ![s] = Done(@, 500, got.msg)]
     ELSE IF got.template.authorId # user.id /\ user.role # "admin"
       THEN reqs' = [reqs EXCEPT ![s] = Done(@, 500, "User is not authorized for this action")]
     ELSE IF user.status # "active"
       THEN reqs' = [reqs EXCEPT ![s] = Done(@, 500, "User is not active")]
     ELSE reqs' = [reqs EXCEPT ![s] = Spread(@, [pc |-> "write"])]
  /\ UNCHANGED <<users, tokens, templates, forms, nextUser, nextTemplate, nextForm>>

\* TemplateHandler.deleteTemplate with the forms of the template left to
\* themselves: Form.template without its foreign key
TemplateHandler_deleteTemplateNoRestrict(s) ==
  /\ reqs[s].pc = "write"
  /\ reqs[s].op = "deleteTemplate"
  /\ IF reqs[s].id \notin DOMAIN templates
       THEN /\ reqs' = [reqs EXCEPT ![s] = Done(@, 500, "Record to delete does not exist")]
            /\ UNCHANGED templates
     ELSE /\ templates' = [t \in DOMAIN templates \ {reqs[s].id} |-> templates[t]]
          /\ reqs' = [reqs EXCEPT ![s] = Done(@, 204, "deleted")]
  /\ UNCHANGED <<users, tokens, forms, nextUser, nextTemplate, nextForm>>

\* TemplateHandler.deleteTemplate and the response; Form.template is a
\* required relation, so a template that has forms cannot be deleted
TemplateHandler_deleteTemplate(s) ==
  /\ reqs[s].pc = "write"
  /\ reqs[s].op = "deleteTemplate"
  /\ IF reqs[s].id \notin DOMAIN templates
       THEN /\ reqs' = [reqs EXCEPT ![s] = Done(@, 500, "Record to delete does not exist")]
            /\ UNCHANGED templates
     ELSE IF \E f \in DOMAIN forms : forms[f].templateId = reqs[s].id
       THEN /\ reqs' = [reqs EXCEPT ![s] = Done(@, 500, "Foreign key constraint failed")]
            /\ UNCHANGED templates
     ELSE /\ templates' = [t \in DOMAIN templates \ {reqs[s].id} |-> templates[t]]
          /\ reqs' = [reqs EXCEPT ![s] = Done(@, 204, "deleted")]
  /\ UNCHANGED <<users, tokens, forms, nextUser, nextTemplate, nextForm>>

\* GET /templates/:id: the route has no middleware and the handler no check;
\* the credential the caller sends, if any, is not read
TemplateController_getTemplate(s, cred, id) ==
  /\ Free(s)
  /\ LET r == [op |-> "getTemplate", cred |-> cred, id |-> id]
         template == getTemplate(id) IN
     IF ~template.ok
       THEN reqs' = [reqs EXCEPT ![s] = Done(r, 500, template.msg)]
       ELSE reqs' = [reqs EXCEPT ![s] =
              Spread(Done(r, 200, "template"), [id |-> id])]
  /\ UNCHANGED <<users, tokens, templates, forms, nextUser, nextTemplate, nextForm>>

\* PUT /templates/admins/:id: the author or a user with role admin replaces
\* the collaborator set of the template; the version stays
updateTemplateAdmins(s) ==
  /\ reqs[s].pc = "handler"
  /\ reqs[s].op = "updateTemplateAdmins"
  /\ LET user == reqs[s].user
         template == getTemplate(reqs[s].id) IN
     IF ~validateUser(user)
       THEN /\ reqs' = [reqs EXCEPT ![s] =
                 Done(@, 401, "The user is not authorized to create a form")]
            /\ UNCHANGED templates
     ELSE IF ~template.ok
       THEN /\ reqs' = [reqs EXCEPT ![s] = Done(@, template.code, template.msg)]
            /\ UNCHANGED templates
     ELSE IF template.template.authorId # user.id /\ user.role # "admin"
       THEN /\ reqs' = [reqs EXCEPT ![s] =
                 Done(@, 401, "User is not authorized for this action")]
            /\ UNCHANGED templates
     ELSE /\ templates' = [templates EXCEPT ![reqs[s].id].admins = reqs[s].body.admins]
          /\ reqs' = [reqs EXCEPT ![s] = Done(@, 200, "updated")]
  /\ UNCHANGED <<users, tokens, forms, nextUser, nextTemplate, nextForm>>

(***************************************************************************)
(* Forms.                                                                  *)
(***************************************************************************)
\* GET /forms/get/:formId
getForm(s) ==
  /\ reqs[s].pc = "handler"
  /\ reqs[s].op = "getForm"
  /\ IF ~validateUser(reqs[s].user)
       THEN reqs' = [reqs EXCEPT ![s] =
              Done(@, 401, "The user is not authorized to create a form")]
     ELSE IF reqs[s].id \notin DOMAIN forms
       THEN reqs' = [reqs EXCEPT ![s] = Done(@, 404, "Form not found")]
     ELSE IF forms[reqs[s].id].userId # reqs[s].user.id /\ reqs[s].user.role # "admin"
       THEN reqs' = [reqs EXCEPT ![s] =
              Done(@, 401, "The user is not authorized to fetch this form")]
     ELSE reqs' = [reqs EXCEPT ![s] = Done(@, 200, "form")]
  /\ UNCHANGED <<users, tokens, templates, forms, nextUser, nextTemplate, nextForm>>

\* FormAnswersSchema with answer: z.string() in place of the union
FormAnswersSchemaStringOnly(answer) ==
  /\ {"questionId", "question", "questionType", "answer"} \subseteq DOMAIN answer
  /\ answer.questionType \in BlockTypes
  /\ DOMAIN answer.answer = {"string"}

\* FormAnswersSchema.safeParse(answer).success; the value of an answer is
\* [string |-> ...] for a JSON string and [array |-> ...] for a JSON array
FormAnswersSchema(answer) ==
  /\ {"questionId", "question", "questionType", "answer"} \subseteq DOMAIN answer
  /\ answer.questionType \in BlockTypes
  /\ DOMAIN answer.answer \in {{"string"}, {"array"}}

\* FormController.validateAnswers: TRUE when it does not throw
validateAnswers(answers) ==
  \A i \in 1..Len(answers) : FormAnswersSchema(answers[i])

\* FormSchema.safeParse(formData).success
FormSchema(formData) ==
  /\ {"userId", "templateId", "answers"} \subseteq DOMAIN formData
  /\ \A i \in 1..Len(formData.answers) : FormAnswersSchema(formData.answers[i])

\* checkTemplate without the test of the status
checkTemplateAnyStatus(templateId) ==
  getTemplate(templateId)

\* FormController.checkTemplate(templateId, published = true)
checkTemplate(templateId) ==
  LET got == getTemplate(templateId) IN
  IF got.ok /\ got.template.status # "published"
    THEN [ok |-> FALSE, code |-> 400, msg |-> "The template is not published"]
    ELSE got

\* the required blocks that no answer refers to, by position in the template
Unanswered(templateBlocks, formAnswers) ==
  {i \in 1..Len(templateBlocks) :
     /\ templateBlocks[i].required
     /\ ~ \E j \in 1..Len(formAnswers) :
            formAnswers[j].questionId = templateBlocks[i].id}

\* the answers that refer to no block of the template
Unmatched(templateBlocks, formAnswers) ==
  {j \in 1..Len(formAnswers) :
     ~ \E i \in 1..Len(templateBlocks) :
         templateBlocks[i].id = formAnswers[j].questionId}

Min(S) == CHOOSE i \in S : \A k \in S : i <= k

RequiredNotAnswered(block) ==
  "Required question \"" \o block.question \o "\" is not answered"

\* matchTemplateBlocks without the loop over the required blocks
matchTemplateBlocksNoRequired(templateBlocks, formAnswers) ==
  IF Unmatched(templateBlocks, formAnswers) # {}
    THEN [ok |-> FALSE, code |-> 400,
          msg |-> "The answer does not match the template block"]
  ELSE [ok |-> TRUE]

\* matchTemplateBlocks without the loop over the answers
matchTemplateBlocksNoOrphan(templateBlocks, formAnswers) ==
  IF Unanswered(templateBlocks, formAnswers) # {}
    THEN [ok |-> FALSE, code |-> 400,
          msg |-> RequiredNotAnswered(
                    templateBlocks[Min(Unanswered(templateBlocks, formAnswers))])]
  ELSE [ok |-> TRUE]

\* FormController.matchTemplateBlocks: the first required block without an
\* answer throws; then the first answer without a block throws
matchTemplateBlocks(templateBlocks, formAnswers) ==
  IF Unanswered(templateBlocks, formAnswers) # {}
    THEN [ok |-> FALSE, code |-> 400,
          msg |-> RequiredNotAnswered(
                    templateBlocks[Min(Unanswered(templateBlocks, formAnswers))])]
  ELSE IF Unmatched(templateBlocks, formAnswers) # {}
    THEN [ok |-> FALSE, code |-> 400,
          msg |-> "The answer does not match the template block"]
  ELSE [ok |-> TRUE]

\* createForm requests that passed every check and wait for their write
PendingCreates ==
  {t \in Slots : reqs[t].pc = "write" /\ reqs[t].op = "createForm"}

\* POST /forms/new, up to the call of the handler: validate the user, the
\* answers and the form, load the template, match the answers to its blocks
createForm(s) ==
  /\ reqs[s].pc = "handler"
  /\ reqs[s].op = "createForm"
  /\ LET user == reqs[s].user
         formData == Spread(reqs[s].body, [userId |-> user.id])
         template == checkTemplate(formData.templateId) IN
     IF ~validateUser(user)
       THEN reqs' = [reqs EXCEPT ![s] =
              Done(@, 401, "The user is not authorized to create a form")]
     ELSE IF "answers" \notin DOMAIN formData
       THEN reqs' = [reqs EXCEPT ![s] = Done(@, 500, "An unexpected error occurred")]
     ELSE IF ~validateAnswers(formData.answers)
       THEN reqs' = [reqs EXCEPT ![s] = Done(@, 400, "Invalid form answers")]
     ELSE IF ~FormSchema(formData)
       THEN reqs' = [reqs EXCEPT ![s] = Done(@, 400, "Validation error")]
     ELSE IF ~template.ok
       THEN reqs' = [reqs EXCEPT ![s] = Done(@, template.code, template.msg)]
     ELSE LET blocks == JSONparse(template.template.blocks).val
              matched == matchTemplateBlocks(blocks, formData.answers) IN
       IF ~matched.ok
         THEN reqs' = [reqs EXCEPT ![s] = Done(@, matched.code, matched.msg)]
         ELSE /\ nextForm + Cardinality(PendingCreates) <= MaxForms
              /\ reqs' = [reqs EXCEPT ![s] =
                   Spread(@, [pc |-> "write", blocks |-> blocks, data |-> formData])]
  /\ UNCHANGED <<users, tokens, templates, forms, nextUser, nextTemplate, nextForm>>

\* FormHandler.createForm and the response; Form.template and Form.user are
\* required relations
FormHandler_createForm(s) ==
  /\ reqs[s].pc = "write"
  /\ reqs[s].op = "createForm"
  /\ LET formData == reqs[s].data IN
     IF formData.templateId \notin DOMAIN templates \/ formData.userId \notin DOMAIN users
       THEN /\ reqs' = [reqs EXCEPT ![s] = Done(@, 500, "An unexpected error occurred")]
            /\ UNCHANGED <<forms, nextForm>>
       ELSE /\ forms' = forms @@ (nextForm :>
                 Spread(formData, [id |-> nextForm,
                                   answers |-> JSONstringify(formData.answers)]))
            /\ nextForm' = nextForm + 1
            /\ reqs' = [reqs EXCEPT ![s] = Spread(Done(@, 201, "created"), [id |-> nextForm])]
  /\ UNCHANGED <<users, tokens, templates, nextUser, nextTemplate>>

\* the merge of FormController.updateForm
MergeForm(form, partialForm) ==
  Spread(Spread(form, partialForm), [templateId |-> form.templateId])

\* updateForm without the match of the new answers against the blocks
updateFormUnchecked(s) ==
  /\ reqs[s].pc = "handler"
  /\ reqs[s].op = "updateForm"
  /\ LET user == reqs[s].user
         partialForm == reqs[s].body IN
     IF ~validateUser(user)
       THEN reqs' = [reqs EXCEPT ![s] =
              Done(@, 401, "The user is not authorized to create a form")]
     ELSE IF reqs[s].id \notin DOMAIN forms
       THEN reqs' = [reqs EXCEPT ![s] = Done(@, 404, "Form not found")]
     ELSE LET form == forms[reqs[s].id]
              template == getTemplate(form.templateId) IN
       IF ~template.ok
         THEN reqs' = [reqs EXCEPT ![s] = Done(@, template.code, template.msg)]
       ELSE IF form.userId # user.id /\ user.role # "admin"
         THEN reqs' = [reqs EXCEPT ![s] =
                Done(@, 401, "The user is not authorized to update this form")]
       ELSE IF "answers" \notin DOMAIN partialForm
         THEN reqs' = [reqs EXCEPT ![s] = Done(@, 500, "An unexpected error occurred")]
       ELSE IF ~validateAnswers(partialForm.answers)
         THEN reqs' = [reqs EXCEPT ![s] = Done(@, 400, "Invalid form answers")]
       ELSE IF ~FormSchema(MergeForm(form, partialForm))
         THEN reqs' = [reqs EXCEPT ![s] = Done(@, 400, "Validation error")]
       ELSE reqs' = [reqs EXCEPT ![s] =
              Spread(@, [pc |-> "write",
                         blocks |-> JSONparse(template.template.blocks).val,
                         data |-> MergeForm(form, partialForm)])]
  /\ UNCHANGED <<users, tokens, templates, forms, nextUser, nextTemplate, nextForm>>

\* PUT /forms/update/:formId, up to the call of the handler: load the form and
\* its template, authorize, merge, validate, match the new answers to the
\* blocks just loaded
updateForm(s) ==
  /\ reqs[s].pc = "handler"
  /\ reqs[s].op = "updateForm"
  /\ LET user == reqs[s].user
         partialForm == reqs[s].body IN
     IF ~validateUser(user)
       THEN reqs' = [reqs EXCEPT ![s] =
              Done(@, 401, "The user is not authorized to create a form")]
     ELSE IF reqs[s].id \notin DOMAIN forms
       THEN reqs' = [reqs EXCEPT ![s] = Done(@, 404, "Form not found")]
     ELSE LET form == forms[reqs[s].id]
              template == getTemplate(form.templateId) IN
       IF ~template.ok
         THEN reqs' = [reqs EXCEPT ![s] = Done(@, template.code, template.msg)]
       ELSE IF form.userId # user.id /\ user.role # "admin"
         THEN reqs' = [reqs EXCEPT ![s] =
                Done(@, 401, "The user is not authorized to update this form")]
       ELSE IF "answers" \notin DOMAIN partialForm
         THEN reqs' = [reqs EXCEPT ![s] = Done(@, 500, "An unexpected error occurred")]
       ELSE IF ~validateAnswers(partialForm.answers)
         THEN reqs' = [reqs EXCEPT ![s] = Done(@, 400, "Invalid form answers")]
       ELSE IF ~FormSchema(MergeForm(form, partialForm))
         THEN reqs' = [reqs EXCEPT ![s] = Done(@, 400, "Validation error")]
       ELSE LET blocks == JSONparse(template.template.blocks).val
                matched == matchTemplateBlocks(blocks, partialForm.answers) IN
         IF ~matched.ok
           THEN reqs' = [reqs EXCEPT ![s] = Done(@, matched.code, matched.msg)]
           ELSE reqs' = [reqs EXCEPT ![s] =
                  Spread(@, [pc |-> "write", blocks |-> blocks,
                             data |-> MergeForm(form, partialForm)])]
  /\ UNCHANGED <<users, tokens, templates, forms, nextUser, nextTemplate, nextForm>>

\* FormHandler.updateForm and the response: the merged form is written as it
\* is, its answers as a JSON array; Form.template and Form.user are required
\* relations
FormHandler_updateForm(s) ==
  /\ reqs[s].pc = "write"
  /\ reqs[s].op = "updateForm"
  /\ LET formData == reqs[s].data IN
     IF \/ formData.id \notin DOMAIN forms
        \/ formData.templateId \notin DOMAIN templates
        \/ formData.userId \notin DOMAIN users
       THEN /\ reqs' = [reqs EXCEPT ![s] = Done(@, 500, "An unexpected error occurred")]
            /\ UNCHANGED forms
       ELSE /\ forms' = [forms EXCEPT ![formData.id] =
                 Spread(@, Spread(formData,
                                  [answers |-> [enc |-> "array", val |-> formData.answers]]))]
            /\ reqs' = [reqs EXCEPT ![s] = Spread(Done(@, 200, "updated"), [id |-> formData.id])]
  /\ UNCHANGED <<users, tokens, templates, nextUser, nextTemplate, nextForm>>

\* GET /forms/template/:templateId: the forms submitted against a template;
\* the answers of every form are parsed for the response
getAllForms(s) ==
  /\ reqs[s].pc = "handler"
  /\ reqs[s].op = "getAllForms"
  /\ LET user == reqs[s].user
         template == getTemplate(reqs[s].id) IN
     IF ~validateUser(user)
       THEN reqs' = [reqs EXCEPT ![s] =
              Done(@, 401, "The user is not authorized to create a form")]
     ELSE IF ~template.ok
       THEN reqs' = [reqs EXCEPT ![s] = Done(@, template.code, template.msg)]
     ELSE IF template.template.authorId # user.id /\ user.role # "admin"
       THEN reqs' = [reqs EXCEPT ![s] =
              Done(@, 401, "The user is not authorized to fetch forms for this template")]
     ELSE IF \E f \in DOMAIN forms :
               forms[f].templateId = reqs[s].id /\ ~JSONparse(forms[f].answers).ok
       THEN reqs' = [reqs EXCEPT ![s] = Done(@, 500, "An unexpected error occurred")]
     ELSE reqs' = [reqs EXCEPT ![s] = Done(@, 200, "forms")]
  /\ UNCHANGED <<users, tokens, templates, forms, nextUser, nextTemplate, nextForm>>

\* DELETE /forms/delete/:formId, up to the call of the handler: load the form
\* and its template, authorize
deleteForm(s) ==
  /\ reqs[s].pc = "handler"
  /\ reqs[s].op = "deleteForm"
  /\ LET user == reqs[s].user IN
     IF ~validateUser(user)
       THEN reqs' = [reqs EXCEPT ![s] =
              Done(@, 401, "The user is not authorized to create a form")]
     ELSE IF reqs[s].id \notin DOMAIN forms
       THEN reqs' = [reqs EXCEPT ![s] = Done(@, 404, "Form not found")]
     ELSE LET form == forms[reqs[s].id]
              template == getTemplate(form.templateId) IN
       IF ~template.ok
         THEN reqs' = [reqs EXCEPT ![s] = Done(@, template.code, template.msg)]
       ELSE IF /\ form.userId # user.id
               /\ template.template.authorId # user.id
               /\ user.role # "admin"
         THEN reqs' = [reqs EXCEPT ![s] =
                Done(@, 401, "The user is not authorized to delete this form")]
       ELSE reqs' = [reqs EXCEPT ![s] = Spread(@, [pc |-> "write"])]
  /\ UNCHANGED <<users, tokens, templates, forms, nextUser, nextTemplate, nextForm>>

\* FormHandler.deleteForm and the response
FormHandler_deleteForm(s) ==
  /\ reqs[s].pc = "write"
  /\ reqs[s].op = "deleteForm"
  /\ IF reqs[s].id \notin DOMAIN forms
       THEN /\ reqs' = [reqs EXCEPT ![s] = Done(@, 500, "An unexpected error occurred")]
            /\ UNCHANGED forms
       ELSE /\ forms' = [f \in DOMAIN forms \ {reqs[s].id} |-> forms[f]]
            /\ reqs' = [reqs EXCEPT ![s] = Done(@, 200, "Form deleted successfully")]
  /\ UNCHANGED <<users, tokens, templates, nextUser, nextTemplate, nextForm>>

(***************************************************************************)
(* The identity specification: the server from an empty store, with        *)
(* registration, login, user management and a protected read.              *)
(***************************************************************************)
AuthRequests ==
  {[op |-> "updateUser", id |-> u, body |-> b] : u \in 1..MaxUsers, b \in UserUpdates}
    \cup {[op |-> "getForm", id |-> 1]}

Init ==
  /\ users = EmptyTable
  /\ tokens = {}
  /\ templates = EmptyTable
  /\ forms = EmptyTable
  /\ reqs = [s \in Slots |-> Idle]
  /\ nextUser = 1
  /\ nextTemplate = 1
  /\ nextForm = 1

Next ==
  \/ \E s \in Slots, email \in Emails, role \in RegRoles : Register(s, email, role)
  \/ \E s \in Slots, email \in Emails, ok \in BOOLEAN : Login(s, email, ok)
  \/ \E s \in Slots, cred \in tokens \cup {NoToken, BadToken}, r \in AuthRequests :
       authMiddleware(s, cred, r)
  \/ \E s \in Slots : updateUser(s)
  \/ \E s \in Slots : getForm(s)
  \/ \E s \in Slots : Reply(s)

Spec == Init /\ [][Next]_vars

(***************************************************************************)
(* The template specification: three registered users (two regular, one    *)
(* admin) holding their tokens, and the template routes.                   *)
(***************************************************************************)
RegisteredUser(id, role) == [id |-> id, email |-> id, role |-> role, status |-> "active"]

TemplateCreateBodies ==
  {[name |-> "n", description |-> "d", blocks |-> <<Q1>>],
   [name |-> "n", description |-> "d", blocks |-> <<Q1>>, status |-> "published"],
   [name |-> "n", blocks |-> <<Q1>>],
   [name |-> "n", description |-> "d", blocks |-> <<QBad>>]}

TemplateUpdateBodies ==
  {[status |-> "published"],
   [version |-> 2],
   [version |-> -1],
   [blocks |-> <<QBad>>]}

TemplateRequests ==
  {[op |-> "createTemplate", body |-> b] : b \in TemplateCreateBodies}
    \cup {[op |-> "updateTemplate", id |-> t, body |-> b] :
            t \in 1..MaxTemplates, b \in TemplateUpdateBodies}
    \cup {[op |-> "deleteTemplate", id |-> t] : t \in 1..MaxTemplates}

InitTemplate ==
  /\ users = (1 :> RegisteredUser(1, "regular")) @@ (2 :> RegisteredUser(2, "regular"))
               @@ (3 :> RegisteredUser(3, "admin"))
  /\ tokens = {generateToken(1, "regular", "active"), generateToken(2, "regular", "active"),
               generateToken(3, "admin", "active")}
  /\ templates = EmptyTable
  /\ forms = EmptyTable
  /\ reqs = [s \in Slots |-> Idle]
  /\ nextUser = 4
  /\ nextTemplate = 1
  /\ nextForm = 1

NextTemplate ==
  \/ \E s \in Slots, cred \in tokens, r \in TemplateRequests : authMiddleware(s, cred, r)
  \/ \E s \in Slots : createTemplate(s)
  \/ \E s \in Slots : updateTemplate(s)
  \/ \E s \in Slots : TemplateHandler_updateTemplate(s)
  \/ \E s \in Slots : deleteTemplate(s)
  \/ \E s \in Slots : TemplateHandler_deleteTemplate(s)
  \/ \E s \in Slots : Reply(s)

SpecTemplate == InitTemplate /\ [][NextTemplate]_vars

(***************************************************************************)
(* The form specification: an author (user 1) and a respondent (user 2);   *)
(* the author's template with a required short-text block and an optional  *)
(* multiple-choice block, not yet published; the form routes and the       *)
(* template update route.                                                  *)
(***************************************************************************)
A1 == [questionId |-> "q1", question |-> "Q1", questionType |-> "short",
       answer |-> [string |-> "hello"]]

A2 == [questionId |-> "q2", question |-> "Q2", questionType |-> "multipleChoice",
       answer |-> [array |-> <<"a">>]]

\* a list of strings for the short-text block
A1List == [questionId |-> "q1", question |-> "Q1", questionType |-> "short",
           answer |-> [array |-> <<"hello">>]]

\* a single string for the multiple-choice block
A2String == [questionId |-> "q2", question |-> "Q2", questionType |-> "multipleChoice",
             answer |-> [string |-> "a"]]

\* a choice that is not among the options of the block
A2Other == [questionId |-> "q2", question |-> "Q2", questionType |-> "multipleChoice",
            answer |-> [array |-> <<"z">>]]

\* an answer to a question the template does not have
A9 == [questionId |-> "q9", question |-> "Q9", questionType |-> "short",
       answer |-> [string |-> "hello"]]

\* an answer without the echoed question text and type
A1Bare == [questionId |-> "q1", answer |-> [string |-> "hello"]]

AnswerLists ==
  {<<A1>>, <<A1, A2>>, <<>>, <<A1, A9>>, <<A9>>,
   <<A1List>>, <<A1, A2String>>, <<A1, A2Other>>, <<A1Bare>>}

FormTemplateBodies ==
  {[status |-> "published"], [blocks |-> <<Q1>>], [blocks |-> <<Q1, Q3>>]}

FormRequests ==
  {[op |-> "createForm", body |-> [templateId |-> 1, answers |-> l]] : l \in AnswerLists}
    \cup {[op |-> "updateForm", id |-> f, body |-> [answers |-> l]] :
            f \in 1..MaxForms, l \in AnswerLists}
    \cup {[op |-> "updateTemplate", id |-> 1, body |-> b] : b \in FormTemplateBodies}

InitForm ==
  /\ users = (1 :> RegisteredUser(1, "regular")) @@ (2 :> RegisteredUser(2, "regular"))
  /\ tokens = {generateToken(1, "regular", "active"), generateToken(2, "regular", "active")}
  /\ \E status \in {"draft", "restricted"} :
       templates = (1 :> [id |-> 1, name |-> "n", description |-> "d", status |-> status,
                          blocks |-> JSONstringify(<<Q1, Q2>>), authorId |-> 1,
                          version |-> 1, admins |-> {1}])
  /\ forms = EmptyTable
  /\ reqs = [s \in Slots |-> Idle]
  /\ nextUser = 3
  /\ nextTemplate = 2
  /\ nextForm = 1

NextForm ==
  \/ \E s \in Slots, cred \in tokens, r \in FormRequests : authMiddleware(s, cred, r)
  \/ \E s \in Slots : createForm(s)
  \/ \E s \in Slots : FormHandler_createForm(s)
  \/ \E s \in Slots : updateForm(s)
  \/ \E s \in Slots : FormHandler_updateForm(s)
  \/ \E s \in Slots : updateTemplate(s)
  \/ \E s \in Slots : TemplateHandler_updateTemplate(s)
  \/ \E s \in Slots : Reply(s)

SpecForm == InitForm /\ [][NextForm]_vars

(***************************************************************************)
(* The access specification: the author (user 1), a second regular user    *)
(* (user 2) whom the author can make a collaborator, a respondent (user 3) *)
(* and an admin (user 4); the author's template, draft or published, with  *)
(* one form submitted by the respondent and one by the author; the routes  *)
(* that read, update and delete templates and forms.                       *)
(***************************************************************************)
StoredForm(id, userId) ==
  [id |-> id, templateId |-> 1, userId |-> userId, answers |-> JSONstringify(<<A1>>)]

AccessRequests ==
  {[op |-> "updateTemplate", id |-> 1, body |-> [name |-> "new name"]],
   [op |-> "updateTemplateAdmins", id |-> 1, body |-> [admins |-> {1, 2}]],
   [op |-> "deleteTemplate", id |-> 1],
   [op |-> "getAllForms", id |-> 1],
   [op |-> "getForm", id |-> 1],
   [op |-> "updateForm", id |-> 1, body |-> [answers |-> <<A1>>]],
   [op |-> "updateForm", id |-> 2, body |-> [id |-> 1, answers |-> <<A1>>]],
   [op |-> "deleteForm", id |-> 1]}

InitAccess ==
  /\ users = (1 :> RegisteredUser(1, "regular")) @@ (2 :> RegisteredUser(2, "regular"))
               @@ (3 :> RegisteredUser(3, "regular")) @@ (4 :> RegisteredUser(4, "admin"))
  /\ tokens = {generateToken(1, "regular", "active"), generateToken(2, "regular", "active"),
               generateToken(3, "regular", "active"), generateToken(4, "admin", "active")}
  /\ \E status \in {"draft", "published"} :
       templates = (1 :> [id |-> 1, name |-> "n", description |-> "d", status |-> status,
                          blocks |-> JSONstringify(<<Q1>>), authorId |-> 1,
                          version |-> 1, admins |-> {1}])
  /\ forms = (1 :> StoredForm(1, 3)) @@ (2 :> StoredForm(2, 1))
  /\ reqs = [s \in Slots |-> Idle]
  /\ nextUser = 5
  /\ nextTemplate = 2
  /\ nextForm = 3

NextAccess ==
  \/ \E s \in Slots, cred \in tokens, r \in AccessRequests : authMiddleware(s, cred, r)
  \/ \E s \in Slots, cred \in tokens \cup {NoToken} : TemplateController_getTemplate(s, cred, 1)
  \/ \E s \in Slots : updateTemplate(s)
  \/ \E s \in Slots : TemplateHandler_updateTemplate(s)
  \/ \E s \in Slots : updateTemplateAdmins(s)
  \/ \E s \in Slots : deleteTemplate(s)
  \/ \E s \in Slots : TemplateHandler_deleteTemplate(s)
  \/ \E s \in Slots : getAllForms(s)
  \/ \E s \in Slots : getForm(s)
  \/ \E s \in Slots : updateForm(s)
  \/ \E s \in Slots : FormHandler_updateForm(s)
  \/ \E s \in Slots : deleteForm(s)
  \/ \E s \in Slots : FormHandler_deleteForm(s)
  \/ \E s \in Slots : Reply(s)

SpecAccess == InitAccess /\ [][NextAccess]_vars

(***************************************************************************)
(* The deletion specification: the author (user 1) and a respondent       *)
(* (user 2); either the author's published template with no form yet, or   *)
(* two published templates of the author with one form of the respondent   *)
(* each; forms are created, updated and deleted while templates are        *)
(* deleted.                                                                *)
(***************************************************************************)
StoredTemplate(id) ==
  [id |-> id, name |-> "n", description |-> "d", status |-> "published",
   blocks |-> JSONstringify(<<Q1>>), authorId |-> 1, version |-> 1, admins |-> {1}]

DeleteRequests ==
  {[op |-> "createForm", body |-> [templateId |-> 1, answers |-> <<A1>>]],
   [op |-> "updateForm", id |-> 1, body |-> [answers |-> <<A1>>]],
   [op |-> "updateForm", id |-> 1, body |-> [id |-> 2, answers |-> <<A1>>]],
   [op |-> "deleteForm", id |-> 1],
   [op |-> "deleteTemplate", id |-> 1]}

InitDelete ==
  /\ users = (1 :> RegisteredUser(1, "regular")) @@ (2 :> RegisteredUser(2, "regular"))
  /\ tokens = {generateToken(1, "regular", "active"), generateToken(2, "regular", "active")}
  /\ \/ /\ templates = (1 :> StoredTemplate(1))
        /\ forms = EmptyTable
        /\ nextTemplate = 2
        /\ nextForm = 1
     \/ /\ templates = (1 :> StoredTemplate(1)) @@ (2 :> StoredTemplate(2))
        /\ forms = (1 :> StoredForm(1, 2))
                     @@ (2 :> Spread(StoredForm(2, 2), [templateId |-> 2]))
        /\ nextTemplate = 3
        /\ nextForm = 3
  /\ reqs = [s \in Slots |-> Idle]
  /\ nextUser = 3

NextDelete ==
  \/ \E s \in Slots, cred \in tokens, r \in DeleteRequests : authMiddleware(s, cred, r)
  \/ \E s \in Slots : createForm(s)
  \/ \E s \in Slots : FormHandler_createForm(s)
  \/ \E s \in Slots : updateForm(s)
  \/ \E s \in Slots : FormHandler_updateForm(s)
  \/ \E s \in Slots : deleteForm(s)
  \/ \E s \in Slots : FormHandler_deleteForm(s)
  \/ \E s \in Slots : deleteTemplate(s)
  \/ \E s \in Slots : TemplateHandler_deleteTemplate(s)
  \/ \E s \in Slots : Reply(s)

SpecDelete == InitDelete /\ [][NextDelete]_vars

(***************************************************************************)
(* The effects specification: two regular users and an empty store; every  *)
(* template and form route, called with a valid token, with no token, and  *)
(* with bodies that pass and bodies that fail validation.                  *)
(***************************************************************************)
EffectRequests ==
  {[op |-> "createTemplate",
    body |-> [name |-> "n", description |-> "d", blocks |-> <<Q1>>, status |-> "published"]],
   [op |-> "createTemplate", body |-> [name |-> "n", description |-> "d", blocks |-> <<QBad>>]],
   [op |-> "updateTemplate", id |-> 1, body |-> [name |-> "new name"]],
   [op |-> "updateTemplate", id |-> 1, body |-> [blocks |-> <<QBad>>]],
   [op |-> "deleteTemplate", id |-> 1],
   [op |-> "createForm", body |-> [templateId |-> 1, answers |-> <<A1>>]],
   [op |-> "createForm", body |-> [templateId |-> 1, answers |-> <<A9>>]],
   [op |-> "updateForm", id |-> 1, body |-> [answers |-> <<A1>>]],
   [op |-> "updateForm", id |-> 1, body |-> [answers |-> <<A1Bare>>]],
   [op |-> "getForm", id |-> 1],
   [op |-> "getAllForms", id |-> 1],
   [op |-> "deleteForm", id |-> 1]}

InitEffects ==
  /\ users = (1 :> RegisteredUser(1, "regular")) @@ (2 :> RegisteredUser(2, "regular"))
  /\ tokens = {generateToken(1, "regular", "active"), generateToken(2, "regular", "active")}
  /\ templates = EmptyTable
  /\ forms = EmptyTable
  /\ reqs = [s \in Slots |-> Idle]
  /\ nextUser = 3
  /\ nextTemplate = 1
  /\ nextForm = 1

NextEffects ==
  \/ \E s \in Slots, cred \in tokens \cup {NoToken}, r \in EffectRequests :
       authMiddleware(s, cred, r)
  \/ \E s \in Slots, cred \in tokens \cup {NoToken} : TemplateController_getTemplate(s, cred, 1)
  \/ \E s \in Slots : createTemplate(s)
  \/ \E s \in Slots : updateTemplate(s)
  \/ \E s \in Slots : TemplateHandler_updateTemplate(s)
  \/ \E s \in Slots : deleteTemplate(s)
  \/ \E s \in Slots : TemplateHandler_deleteTemplate(s)
  \/ \E s \in Slots : createForm(s)
  \/ \E s \in Slots : FormHandler_createForm(s)
  \/ \E s \in Slots : updateForm(s)
  \/ \E s \in Slots : FormHandler_updateForm(s)
  \/ \E s \in Slots : getForm(s)
  \/ \E s \in Slots : getAllForms(s)
  \/ \E s \in Slots : deleteForm(s)
  \/ \E s \in Slots : FormHandler_deleteForm(s)
  \/ \E s \in Slots : Reply(s)

SpecEffects == InitEffects /\ [][NextEffects]_vars

(***************************************************************************)
(* The content specification: two regular users and no template yet; a     *)
(* template is created and updated with bodies that name its content, its  *)
(* author and its blocks.                                                  *)
(***************************************************************************)
ContentRequests ==
  {[op |-> "createTemplate", body |-> [name |-> "n", description |-> "d", blocks |-> <<Q1>>]],
   [op |-> "createTemplate",
    body |-> [name |-> "n", description |-> "d", blocks |-> <<Q1, Q1Dup>>]],
   [op |-> "updateTemplate", id |-> 1, body |-> [name |-> "new name"]],
   [op |-> "updateTemplate", id |-> 1, body |-> [status |-> "published"]],
   [op |-> "updateTemplate", id |-> 1, body |-> [authorId |-> 2]],
   [op |-> "updateTemplate", id |-> 1, body |-> [blocks |-> <<Q1, Q1Dup>>]]}

InitContent ==
  /\ users = (1 :> RegisteredUser(1, "regular")) @@ (2 :> RegisteredUser(2, "regular"))
  /\ tokens = {generateToken(1, "regular", "active"), generateToken(2, "regular", "active")}
  /\ templates = EmptyTable
  /\ forms = EmptyTable
  /\ reqs = [s \in Slots |-> Idle]
  /\ nextUser = 3
  /\ nextTemplate = 1
  /\ nextForm = 1

NextContent ==
  \/ \E s \in Slots, cred \in tokens, r \in ContentRequests : authMiddleware(s, cred, r)
  \/ \E s \in Slots : createTemplate(s)
  \/ \E s \in Slots : updateTemplate(s)
  \/ \E s \in Slots : TemplateHandler_updateTemplate(s)
  \/ \E s \in Slots : Reply(s)

SpecContent == InitContent /\ [][NextContent]_vars

(***************************************************************************)
(* The user management specification: an admin (user 1) and two regular    *)
(* users holding their tokens; the routes under /users that need the admin *)
(* role, and login, which issues a token for the stored role and status.   *)
(***************************************************************************)
UserRequests ==
  {[op |-> "updateUser", id |-> u, body |-> b] : u \in {2, 3}, b \in UserUpdates}
    \cup {[op |-> "deleteUser", id |-> 3], [op |-> "getAllUsers"]}

InitUsers ==
  /\ users = (1 :> RegisteredUser(1, "admin")) @@ (2 :> RegisteredUser(2, "regular"))
               @@ (3 :> RegisteredUser(3, "regular"))
  /\ tokens = {generateToken(1, "admin", "active"), generateToken(2, "regular", "active"),
               generateToken(3, "regular", "active")}
  /\ templates = EmptyTable
  /\ forms = EmptyTable
  /\ reqs = [s \in Slots |-> Idle]
  /\ nextUser = 4
  /\ nextTemplate = 1
  /\ nextForm = 1

NextUsers ==
  \/ \E s \in Slots, email \in {2, 3} : Login(s, email, TRUE)
  \/ \E s \in Slots, cred \in tokens, r \in UserRequests : authMiddleware(s, cred, r)
  \/ \E s \in Slots : getAllUsers(s)
  \/ \E s \in Slots : updateUser(s)
  \/ \E s \in Slots : deleteUser(s)
  \/ \E s \in Slots : Reply(s)

SpecUsers == InitUsers /\ [][NextUsers]_vars

(***************************************************************************)
(* The answers specification: two regular users and the published template *)
(* of user 1 with the required block q1 and the optional block q2; forms   *)
(* are created and updated with answer lists that answer q1 once or twice. *)
(***************************************************************************)
\* a second answer to the block q1
A1Again == [questionId |-> "q1", question |-> "Q1", questionType |-> "short",
            answer |-> [string |-> "other"]]

AnswersRequests ==
  {[op |-> "createForm", body |-> [templateId |-> 1, answers |-> l]] :
     l \in {<<A1>>, <<A1, A1Again>>}}
    \cup {[op |-> "updateForm", id |-> 1, body |-> [answers |-> l]] :
            l \in {<<A1, A2>>, <<A1, A1Again>>, <<A1, A2, A1Again>>}}

InitAnswers ==
  /\ users = (1 :> RegisteredUser(1, "regular")) @@ (2 :> RegisteredUser(2, "regular"))
  /\ tokens = {generateToken(1, "regular", "active"), generateToken(2, "regular", "active")}
  /\ templates = (1 :> Spread(StoredTemplate(1), [blocks |-> JSONstringify(<<Q1, Q2>>)]))
  /\ forms = EmptyTable
  /\ reqs = [s \in Slots |-> Idle]
  /\ nextUser = 3
  /\ nextTemplate = 2
  /\ nextForm = 1

NextAnswers ==
  \/ \E s \in Slots, cred \in tokens, r \in AnswersRequests : authMiddleware(s, cred, r)
  \/ \E s \in Slots : createForm(s)
  \/ \E s \in Slots : FormHandler_createForm(s)
  \/ \E s \in Slots : updateForm(s)
  \/ \E s \in Slots : FormHandler_updateForm(s)
  \/ \E s \in Slots : Reply(s)

SpecAnswers == InitAnswers /\ [][NextAnswers]_vars

(***************************************************************************)
(* Properties of identity and session.                                     *)
(***************************************************************************)
\* the request that arrives on connection s in this step
Arrives(s) == reqs[s] = Idle /\ reqs'[s] # Idle

Protected(r) == r.op \notin {"register", "login"}

Suspended(u) == u \in DOMAIN users /\ users[u].status = "suspended"

\* C1: a request made for a user whose stored status is suspended is denied,
\* whatever the user's role: a login for that user answers 401 and issues no
\* token, a protected request carrying a token issued to that user is answered
\* 401/403 by the middleware and changes nothing, and a handler only ever runs
\* for a request whose user the middleware found active.
C1_SuspendedDenied ==
  /\ [][\A s \in Slots : Arrives(s) =>
          /\ (reqs'[s].op = "login" /\ Suspended(reqs'[s].email))
               => /\ reqs'[s].pc = "done"
                  /\ reqs'[s].code = 401
                  /\ "token" \notin DOMAIN reqs'[s]
                  /\ tokens' = tokens
          /\ (Protected(reqs'[s]) /\ reqs'[s].cred.kind = "jwt"
                /\ Suspended(reqs'[s].cred.userId))
               => /\ reqs'[s].pc = "done"
                  /\ reqs'[s].code \in {401, 403}
                  /\ store' = store]_vars
  /\ [](\A s \in Slots : reqs[s].pc = "handler" => reqs[s].user.status = "active")

\* C1 witness: a suspended admin's login is refused while a protected request
\* carrying the token issued to them before the suspension is rejected.
C1_Witness ==
  \E s, t \in Slots :
    /\ reqs[s].pc = "done" /\ reqs[s].op = "login"
    /\ reqs[s].msg = "User is not active"
    /\ reqs[t].pc = "done" /\ Protected(reqs[t])
    /\ reqs[t].cred.kind = "jwt" /\ reqs[t].cred.userStatus = "active"
    /\ reqs[t].cred.userRole = "admin"
    /\ Suspended(reqs[t].cred.userId)
    /\ users[reqs[t].cred.userId].role = "admin"
    /\ reqs[t].code = 403

\* C2: the middleware admits a request carrying a validly signed, unexpired
\* token exactly when the stored user exists and its stored role and status
\* both equal the ones embedded in the token; otherwise it answers 403.
C2_StaleCredential ==
  [][\A s \in Slots :
       (Arrives(s) /\ Protected(reqs'[s]) /\ reqs'[s].cred.kind = "jwt") =>
         LET c == reqs'[s].cred
             fresh == /\ c.userId \in DOMAIN users
                      /\ users[c.userId].role = c.userRole
                      /\ users[c.userId].status = c.userStatus
         IN /\ fresh <=> reqs'[s].pc = "handler"
            /\ ~fresh => (reqs'[s].pc = "done" /\ reqs'[s].code = 403)]_vars

\* C2 witness: a token issued while the role was regular is rejected after an
\* admin promoted the user; the status never changed.
C2_Witness ==
  \E s \in Slots :
    /\ reqs[s].pc = "done" /\ Protected(reqs[s])
    /\ reqs[s].cred.kind = "jwt"
    /\ reqs[s].cred.userRole = "regular" /\ reqs[s].cred.userStatus = "active"
    /\ reqs[s].cred.userId \in DOMAIN users
    /\ users[reqs[s].cred.userId].role = "admin"
    /\ users[reqs[s].cred.userId].status = "active"
    /\ reqs[s].msg = "Token information mismatch"

(***************************************************************************)
(* Properties of the template version.                                     *)
(***************************************************************************)
\* the request on connection s is answered in this step
Answered(s, op) ==
  /\ reqs[s].pc \in {"handler", "write"}
  /\ reqs[s].op = op
  /\ reqs'[s].pc = "done"

Succeeded(s) == reqs'[s].code \in {200, 201, 204}

Checked(s, op) ==
  /\ reqs[s].pc = "handler"
  /\ reqs[s].op = op
  /\ reqs'[s] # reqs[s]

\* the handler on connection s accepted the request and goes on to its write
Accepted(s) == reqs'[s].pc = "write"

\* the handler on connection s answers code and msg and the forms stay as
\* they are
Rejected(s, code, msg) ==
  /\ reqs'[s].pc = "done"
  /\ reqs'[s].code = code
  /\ reqs'[s].msg = msg
  /\ forms' = forms

\* the block list a template has now
Blocks(t) == JSONparse(templates[t].blocks).val

\* an Answer of the data model: question id, echoed text and type, and a
\* value that is a string or a list of strings
IsAnswer(a) ==
  /\ {"questionId", "question", "questionType", "answer"} \subseteq DOMAIN a
  /\ a.questionType \in BlockTypes
  /\ DOMAIN a.answer \in {{"string"}, {"array"}}

IsAnswerList(l) == \A i \in 1..Len(l) : IsAnswer(l[i])

Range(f) == {f[i] : i \in DOMAIN f}

\* the value fits the block: one string for short text and paragraph, a list
\* of options of the block for multiple choice
ShapeFits(block, value) ==
  IF block.type = "multipleChoice"
    THEN DOMAIN value = {"array"} /\ Range(value.array) \subseteq Range(block.options)
    ELSE DOMAIN value = {"string"}

ShapeMismatch(blocks, answers) ==
  \E i \in 1..Len(blocks), j \in 1..Len(answers) :
    /\ blocks[i].id = answers[j].questionId
    /\ ~ShapeFits(blocks[i], answers[j].answer)

NotPublished(t) == t \in DOMAIN templates /\ templates[t].status # "published"

Published(t) == t \in DOMAIN templates /\ templates[t].status = "published"

\* C5 as stated: createForm against a template that is not published is
\* answered with "The template is not published" and persists no form, for
\* every admitted caller and every submitted answer list.
C5_NotPublishedAlways ==
  [][\A s \in Slots :
       (Checked(s, "createForm") /\ NotPublished(reqs[s].body.templateId)) =>
         Rejected(s, 400, "The template is not published")]_vars

\* C5 amended: createForm by a caller with a recognized role against a
\* template that is not published (draft or restricted) never persists a form
\* and is never accepted; it is answered with "The template is not published"
\* when every submitted answer is well formed, and with 400 "Invalid form
\* answers" otherwise.
C5_NotPublished ==
  [][\A s \in Slots :
       (/\ Checked(s, "createForm")
        /\ validateUser(reqs[s].user)
        /\ NotPublished(reqs[s].body.templateId)) =>
         IF IsAnswerList(reqs[s].body.answers)
           THEN Rejected(s, 400, "The template is not published")
           ELSE Rejected(s, 400, "Invalid form answers")]_vars

\* C5 witness: a createForm against the restricted template has been answered
\* "The template is not published" and no form exists.
C5_Witness ==
  \E s \in Slots :
    /\ reqs[s].pc = "done" /\ reqs[s].op = "createForm"
    /\ reqs[s].code = 400 /\ reqs[s].msg = "The template is not published"
    /\ templates[1].status = "restricted"
    /\ forms = EmptyTable

\* the message for the first required block of the template that the answers
\* leave out
FirstUnanswered(blocks, answers) ==
  RequiredNotAnswered(blocks[Min(Unanswered(blocks, answers))])

\* a createForm request by a caller with a recognized role carrying a
\* well-formed answer list against a published template runs its checks
ChecksCreate(s) ==
  /\ Checked(s, "createForm")
  /\ validateUser(reqs[s].user)
  /\ Published(reqs[s].body.templateId)
  /\ IsAnswerList(reqs[s].body.answers)

\* C6: createForm against a published template is answered 400 "Required
\* question ... is not answered", naming the first such block, and persists no
\* form, whenever some block with required = true has no answer with its id;
\* and it is answered so only then: a block with required = false that is left
\* unanswered never causes it.
C6_MissingRequired ==
  [][\A s \in Slots : ChecksCreate(s) =>
       LET blocks == Blocks(reqs[s].body.templateId)
           answers == reqs[s].body.answers IN
       /\ Unanswered(blocks, answers) # {}
            => Rejected(s, 400, FirstUnanswered(blocks, answers))
       /\ (/\ reqs'[s].pc = "done"
           /\ \E i \in 1..Len(blocks) : reqs'[s].msg = RequiredNotAnswered(blocks[i]))
            => Unanswered(blocks, answers) # {}
       /\ (Unanswered(blocks, answers) = {} /\ Unmatched(blocks, answers) = {})
            => Accepted(s)]_vars

\* C6 witness: a createForm against the published template has been answered
\* that the required question Q1 is not answered, no form exists, and another
\* createForm that leaves the optional block q2 unanswered has been accepted.
C6_Witness ==
  \E s, t \in Slots :
    /\ reqs[s].pc = "done" /\ reqs[s].op = "createForm"
    /\ reqs[s].code = 400 /\ reqs[s].msg = RequiredNotAnswered(Q1)
    /\ Published(1) /\ Blocks(1) = <<Q1, Q2>>
    /\ forms = EmptyTable
    /\ reqs[t].pc = "write" /\ reqs[t].op = "createForm"
    /\ reqs[t].data.answers = <<A1>>

ChecksAnswers(s, t) ==
  \/ /\ ChecksCreate(s)
     /\ t = reqs[s].body.templateId
  \/ /\ Checked(s, "updateForm")
     /\ validateUser(reqs[s].user)
     /\ reqs[s].id \in DOMAIN forms
     /\ forms[reqs[s].id].userId = reqs[s].user.id \/ reqs[s].user.role = "admin"
     /\ IsAnswerList(reqs[s].body.answers)
     /\ t = forms[reqs[s].id].templateId

\* C8: createForm and updateForm reject with a 400 any answer list holding a
\* value that does not fit its block: a list for a short-text or paragraph
\* block, a single string for a multiple-choice block, or a list with a string
\* that is not an option of the block.
C8_ShapeRejected ==
  [][\A s \in Slots, t \in DOMAIN templates :
       (ChecksAnswers(s, t) /\ ShapeMismatch(Blocks(t), reqs[s].body.answers))
         => /\ reqs'[s].pc = "done"
            /\ reqs'[s].code = 400
            /\ forms' = forms]_vars

\* C9: createForm by a caller with a recognized role against a published
\* template, with well-formed answers that cover every required block, refer
\* to no unknown question and have the shape their blocks require, is accepted
\* whether or not the optional blocks are answered; its write answers 201 and
\* persists exactly one new form, owned by the caller, bound to the template
\* and holding the submitted answers, and leaves the other forms as they are.
C9_CreateSucceeds ==
  /\ [][\A s \in Slots : ChecksCreate(s) =>
          LET blocks == Blocks(reqs[s].body.templateId)
              answers == reqs[s].body.answers IN
          (/\ Unanswered(blocks, answers) = {}
           /\ Unmatched(blocks, answers) = {}
           /\ ~ShapeMismatch(blocks, answers))
            => /\ Accepted(s)
               /\ reqs'[s].data = Spread(reqs[s].body, [userId |-> reqs[s].user.id])]_vars
  /\ [][\A s \in Slots :
          (reqs[s].pc = "write" /\ reqs[s].op = "createForm" /\ reqs'[s] # reqs[s])
            => /\ reqs'[s].pc = "done"
               /\ reqs'[s].code = 201
               /\ \E f \in DOMAIN forms' \ DOMAIN forms :
                    /\ DOMAIN forms' = DOMAIN forms \cup {f}
                    /\ forms'[f].userId = reqs[s].user.id
                    /\ forms'[f].templateId = reqs[s].body.templateId
                    /\ JSONparse(forms'[f].answers) =
                         [ok |-> TRUE, val |-> reqs[s].body.answers]
               /\ \A g \in DOMAIN forms : forms'[g] = forms[g]]_vars

\* C9 witness: a createForm by the respondent has been answered 201; the form
\* it persisted holds one answer while the template has two blocks.
C9_Witness ==
  \E s \in Slots :
    /\ reqs[s].pc = "done" /\ reqs[s].op = "createForm" /\ reqs[s].code = 201
    /\ reqs[s].cred.userId = 2
    /\ reqs[s].id \in DOMAIN forms
    /\ forms[reqs[s].id].userId = 2
    /\ forms[reqs[s].id].answers = JSONstringify(<<A1>>)
    /\ Blocks(1) = <<Q1, Q2>>

OwnsTemplate(user, t) ==
  templates[t].authorId = user.id \/ user.id \in templates[t].admins

\* the write of the request on connection s is carried out in this step
Writes(s, op) ==
  /\ reqs[s].pc = "write"
  /\ reqs[s].op = op
  /\ reqs'[s].pc = "done"

C12_DeletePermission ==
  [][\A s \in Slots :
       (/\ Checked(s, "deleteTemplate")
        /\ reqs[s].user.role = "regular"
        /\ reqs[s].id \in DOMAIN templates) =>
         (OwnsTemplate(reqs[s].user, reqs[s].id) <=> Accepted(s))]_vars

\* the request on connection s is refused by an ownership check
Denied(s) ==
  /\ reqs'[s].pc = "done"
  /\ reqs'[s].msg \in {"User is not authorized for this action",
                       "The user is not authorized to fetch forms for this template",
                       "The user is not authorized to fetch this form",
                       "The user is not authorized to update this form",
                       "The user is not authorized to delete this form"}

\* C13: for a caller with role regular, getAllForms on an existing template
\* is permitted exactly when the caller is the template's author or in its
\* collaborator set, whatever the status of the template.
C13_ListPermission ==
  [][\A s \in Slots :
       (/\ Checked(s, "getAllForms")
        /\ reqs[s].user.role = "regular"
        /\ reqs[s].id \in DOMAIN templates) =>
         (OwnsTemplate(reqs[s].user, reqs[s].id) <=> ~Denied(s))]_vars

\* the template t has at least one submitted form
HasForms(t) == \E f \in DOMAIN forms : forms[f].templateId = t

\* C14: an authorized deleteTemplate on a template that has submitted forms
\* is answered 204 and removes, in the one step of its write, the template
\* and every form submitted against it.
C14_DeleteCascades ==
  [][\A s \in Slots :
       (/\ Writes(s, "deleteTemplate")
        /\ reqs[s].id \in DOMAIN templates
        /\ HasForms(reqs[s].id)) =>
         /\ reqs'[s].code = 204
         /\ reqs[s].id \notin DOMAIN templates'
         /\ \A f \in DOMAIN forms' : forms'[f].templateId # reqs[s].id]_vars

\* C15: every stored form was submitted against a template that exists,
\* whatever the interleaving of createForm, updateForm, deleteForm and
\* deleteTemplate.
C15_NoOrphanedForms ==
  \A f \in DOMAIN forms : forms[f].templateId \in DOMAIN templates

\* C15 witness: a form was created against the template and a deleteTemplate
\* of that template was refused by the foreign key; the form and its template
\* are both stored.
C15_Witness ==
  \E s, c \in Slots :
    /\ reqs[s].pc = "done" /\ reqs[s].op = "deleteTemplate" /\ reqs[s].code = 500
    /\ reqs[s].msg = "Foreign key constraint failed"
    /\ reqs[c].pc = "done" /\ reqs[c].op = "createForm" /\ reqs[c].code = 201
    /\ 1 \in DOMAIN forms
    /\ forms[1].templateId \in DOMAIN templates

\* the caller presenting cred may act on the template t as its author, one of
\* its collaborators or a user with the stored role admin
MayReadUnpublished(cred, t) ==
  /\ cred.kind = "jwt"
  /\ cred.userId \in DOMAIN users
  /\ \/ OwnsTemplate(users[cred.userId], t)
     \/ users[cred.userId].role = "admin"

\* C16: getTemplate on an existing template answers with the template for
\* every caller when its status is published; when its status is draft or
\* restricted it answers with the template only for the author, a
\* collaborator or an admin.
C16_ReadTemplate ==
  [][\A s \in Slots :
       (/\ Arrives(s)
        /\ reqs'[s].op = "getTemplate"
        /\ reqs'[s].id \in DOMAIN templates) =>
         IF templates[reqs'[s].id].status = "published"
           THEN reqs'[s].code = 200
           ELSE reqs'[s].code = 200 => MayReadUnpublished(reqs'[s].cred, reqs'[s].id)]_vars

\* C17: for a caller with role regular, updateForm is refused unless the
\* caller submitted the form it names, and the write of an accepted updateForm
\* changes no form that the caller did not submit.
C17_UpdateOwnFormOnly ==
  [][\A s \in Slots :
       /\ (/\ Checked(s, "updateForm")
           /\ reqs[s].user.role = "regular"
           /\ reqs[s].id \in DOMAIN forms
           /\ forms[reqs[s].id].templateId \in DOMAIN templates
           /\ forms[reqs[s].id].userId # reqs[s].user.id) => Denied(s)
       /\ (/\ Writes(s, "updateForm")
           /\ reqs[s].user.role = "regular") =>
             \A f \in DOMAIN forms :
               forms'[f] # forms[f] => forms[f].userId = reqs[s].user.id]_vars

\* the caller submitted the form f, or is the author or a collaborator of the
\* template the form was submitted against
MayReadForm(user, f) ==
  \/ forms[f].userId = user.id
  \/ OwnsTemplate(user, forms[f].templateId)

\* C18: for a caller with role regular, getForm and deleteForm on an existing
\* form are each permitted exactly when the caller submitted the form or is
\* the author or a collaborator of its template.
C18_FormReadDeletePermission ==
  [][\A s \in Slots :
       (/\ Checked(s, "getForm") \/ Checked(s, "deleteForm")
        /\ reqs[s].user.role = "regular"
        /\ reqs[s].id \in DOMAIN forms
        /\ forms[reqs[s].id].templateId \in DOMAIN templates) =>
         (MayReadForm(reqs[s].user, reqs[s].id) <=> ~Denied(s))]_vars

\* the routes that check the ownership of a template or a form
OwnershipChecked ==
  {"updateTemplate", "deleteTemplate", "getAllForms", "getForm", "updateForm", "deleteForm"}

Responds(s) == reqs[s].pc # "done" /\ reqs'[s].pc = "done"

C21_NoCredential ==
  [][\A s \in Slots :
       (Arrives(s) /\ Protected(reqs'[s])) =>
         /\ reqs'[s].cred.kind = "none" =>
              reqs'[s].pc = "done" /\ reqs'[s].code = 401
         /\ reqs'[s].cred.kind = "bad" =>
              reqs'[s].pc = "done" /\ reqs'[s].code \in {401, 403}]_vars

C23_TemplateBindingImmutable ==
  [][/\ \A s \in Slots :
          (Writes(s, "createForm") /\ reqs'[s].code = 201) =>
            forms'[reqs'[s].id].templateId = reqs[s].body.templateId
     /\ \A f \in DOMAIN forms :
          f \in DOMAIN forms' => forms'[f].templateId = forms[f].templateId]_vars

\* the routes under /users that are reserved to admins
AdminOnly == {"updateUser", "deleteUser", "getAllUsers"}

\* C24: updateUser, deleteUser and getAllUsers answer a caller whose role is
\* not admin with 403 and leave the users as they are, and the role or the
\* status of a stored user changes only in the step of an updateUser request
\* for that user whose caller the middleware found to be an admin.
C24_AdminOnlyUserChanges ==
  [][/\ \A s \in Slots, op \in AdminOnly :
          (Checked(s, op) /\ reqs[s].user.role # "admin") =>
            /\ reqs'[s].pc = "done"
            /\ reqs'[s].code = 403
            /\ users' = users
     /\ \A u \in DOMAIN users :
          (/\ u \in DOMAIN users'
           /\ \/ users'[u].role # users[u].role
              \/ users'[u].status # users[u].status) =>
            \E s \in Slots :
              /\ Answered(s, "updateUser")
              /\ reqs'[s].code = 200
              /\ reqs[s].id = u
              /\ reqs[s].user.role = "admin"]_vars

\* C24 witness: the admin has suspended user 3, and the deleteUser of the
\* regular user 2 was answered 403 with user 3 still stored.
C24_Witness ==
  \E s, d \in Slots :
    /\ reqs[s].pc = "done" /\ reqs[s].op = "updateUser" /\ reqs[s].code = 200
    /\ reqs[s].cred.userRole = "admin"
    /\ reqs[d].pc = "done" /\ reqs[d].op = "deleteUser" /\ reqs[d].code = 403
    /\ reqs[d].cred.userId = 2
    /\ users[2].role = "regular"
    /\ 3 \in DOMAIN users
    /\ users[3].status = "suspended"

\* the updateTemplate on connection s is about to persist while another
\* update of the same template has loaded it and not yet persisted, or after
\* another request has persisted since s loaded the template
Interleaved(s) ==
  /\ reqs[s].pc = "write"
  /\ reqs[s].op = "updateTemplate"
  /\ reqs[s].id \in DOMAIN templates
  /\ \/ \E d \in Slots \ {s} :
          /\ reqs[d].pc = "write"
          /\ reqs[d].op = "updateTemplate"
          /\ reqs[d].id = reqs[s].id
     \/ templates[reqs[s].id] # reqs[s].existingTemplate

AnsweredTwice(blocks, answers) ==
  \E i \in 1..Len(blocks), j, k \in 1..Len(answers) :
    /\ blocks[i].required
    /\ j # k
    /\ answers[j].questionId = blocks[i].id
    /\ answers[k].questionId = blocks[i].id

\* C26: createForm and updateForm answer 400 and leave the forms as they are
\* when the answer list holds two or more answers to one required block.
C26_OneAnswerPerRequired ==
  [][\A s \in Slots, t \in DOMAIN templates :
       (ChecksAnswers(s, t) /\ AnsweredTwice(Blocks(t), reqs[s].body.answers))
         => /\ reqs'[s].pc = "done"
            /\ reqs'[s].code = 400
            /\ forms' = forms]_vars

\* C27: the blocks of every stored template have pairwise distinct ids.
C27_UniqueBlockIds ==
  \A t \in DOMAIN templates :
    \A i, j \in 1..Len(Blocks(t)) :
      Blocks(t)[i].id = Blocks(t)[j].id => i = j

\* C28: the write of an updateForm request for the form named in its path
\* leaves every other stored form as it is and leaves the id and the userId
\* of the named form as they are, whatever the body carries.
C28_UpdateFormFrame ==
  [][\A s \in Slots : Writes(s, "updateForm") =>
       /\ DOMAIN forms' = DOMAIN forms
       /\ \A f \in DOMAIN forms :
            IF f = reqs[s].id
              THEN /\ forms'[f].id = forms[f].id
                   /\ forms'[f].userId = forms[f].userId
              ELSE forms'[f] = forms[f]]_vars

\* C29: starting from a store without users, where no request can carry an
\* admin's credential, every stored user has role regular and status active
\* and every issued token carries role regular, whatever the registration
\* bodies contain.
C29_NoSelfMadeAdmin ==
  /\ \A u \in DOMAIN users : users[u].role = "regular" /\ users[u].status = "active"
  /\ \A token \in tokens : token.userRole = "regular"

====
